---- MODULE Spec2Model ----
(***************************************************************************)
(* PCAPlotMixin (src/pyChemometrics/PCAPlotMixin.py): the plotting mixin   *)
(* of a fitted PCA model.  Every method is one synchronous call; a call is *)
(* one action that takes the receiver and its arguments and leaves the     *)
(* call's outcome (exception raised, text printed, chart items requested)  *)
(* in `result`.  `Return` hands the outcome to the caller.                 *)
(*                                                                         *)
(* Numbers.  Scores, T2 limits and Q2 values are integers (Q2 in           *)
(* hundredths); quotients are exact rationals extended with inf, -inf and  *)
(* nan the way numpy divides floats (x/0).  Binary rounding is not         *)
(* modelled.                                                               *)
(***************************************************************************)
EXTENDS Integers, Sequences, FiniteSets

VARIABLES self, globals, pc, call, result

vars == <<self, globals, pc, call, result>>

(***************************************************************************)
(* Bounds of the model.                                                    *)
(***************************************************************************)
MaxNcomps == 2
MaxTotalComps == 3
MaxRepComps == 2
MaxRepeats == 2
MaxDim == 4
NVars == 2

Samples == {1, 2}
ScoreVals == {-3, 0, 2}
T2Vals == {0, 2, 3}
Q2Vals == {-80, -50, 0, 50, 80, 83}
RepQ2Vals == {0, 50}
Sigmas == {0, 2, 3}
Fail == 1000

(***************************************************************************)
(* Program constants.                                                      *)
(***************************************************************************)
MaxPlotComps == 2
OutlierLimit == 1
CutoffNum == 5
CutoffDen == 100

InvalidComponentMsg == "The number of components to plot must not exceed 2 and the component choice cannot exceed the number of components in the model"
ExploreMsg == "Consider exploring a higher level of components"
StabilizeMsg == "Q2X measure stabilizes (increase of less than 5% of previous value or decrease) at component {0}"

(***************************************************************************)
(* The names bound in the module's namespace by its import statements and  *)
(* its class statement.  A name used in a method body is looked up here    *)
(* when the line runs.                                                     *)
(***************************************************************************)
ModuleGlobals ==
    {"ABCMeta", "np", "mpl", "plt", "cm", "Normalize", "sns", "st", "KFold",
     "deepcopy", "PlotMixin", "warnings", "PCAPlotMixin"}

(***************************************************************************)
(* Float arithmetic as numpy performs it on arrays: a quotient with a zero *)
(* divisor is inf, -inf or nan (a warning, no exception).                  *)
(***************************************************************************)
Abs(a) == IF a < 0 THEN -a ELSE a

FDiv(a, b) ==
    IF b = 0
    THEN [k |-> IF a > 0 THEN "inf" ELSE IF a < 0 THEN "ninf" ELSE "nan", n |-> 0, d |-> 1]
    ELSE [k |-> "fin", n |-> IF b < 0 THEN -a ELSE a, d |-> Abs(b)]

FZero == [k |-> "fin", n |-> 0, d |-> 1]

FAdd(x, y) ==
    IF x.k = "nan" \/ y.k = "nan" THEN [k |-> "nan", n |-> 0, d |-> 1]
    ELSE IF x.k = "fin" /\ y.k = "fin"
         THEN [k |-> "fin", n |-> x.n * y.d + y.n * x.d, d |-> x.d * y.d]
    ELSE IF x.k = "fin" THEN y
    ELSE IF y.k = "fin" THEN x
    ELSE IF x.k = y.k THEN x
    ELSE [k |-> "nan", n |-> 0, d |-> 1]

\* x > c for an integer c; every comparison with nan is false
FGt(x, c) ==
    CASE x.k = "fin" -> x.n > c * x.d
      [] x.k = "inf" -> TRUE
      [] OTHER -> FALSE

\* x < num/den (den > 0)
FLt(x, num, den) ==
    CASE x.k = "fin" -> x.n * den < num * x.d
      [] x.k = "ninf" -> TRUE
      [] OTHER -> FALSE

(***************************************************************************)
(* The fitted model the mixin is composed with (its attributes are         *)
(* computed by the PCA class, outside this file).                          *)
(***************************************************************************)
ModelAttributes ==
    {"scores", "loadings", "ncomps", "modelParameters", "cvParameters",
     "fit", "cross_validation", "dmodx", "leverages", "outlier", "hotelling_T2"}

ConstMatrix(rows, cols, v) == [r \in 1..rows |-> [c \in 1..cols |-> v]]

CvStats(n, q, sd) ==
    [Q2 |-> q, Mean_Loadings |-> ConstMatrix(n, NVars, 1),
     Stdev_Loadings |-> ConstMatrix(n, NVars, sd)]

\* cvParameters is <<>> for None, <<stats>> once cross-validation has run
ModelsWith(scoreVals, cvs) ==
    UNION { { [ncomps |-> n, scores |-> sc, loadings |-> ConstMatrix(n, NVars, 1),
               cvParameters |-> cv]
              : sc \in [Samples -> [1..n -> scoreVals]],
                cv \in IF cvs THEN {<<>>} \cup {<<CvStats(n, 50, sd)>> : sd \in {1, 2}}
                              ELSE {<<>>} }
            : n \in 1..MaxNcomps }

Idle == [op |-> "none"]
NoResult == [exc |-> ""]

(***************************************************************************)
(* plot_scores                                                             *)
(***************************************************************************)
CompSelections ==
    UNION { [1..len -> 0..MaxNcomps] : len \in 1..(MaxPlotComps + 1) }

ColorOptions == {"none", "continuous", "discrete"}

InRange(m, comps) == \A i \in 1..Len(comps) : comps[i] < m.ncomps

\* hotelling_T2(alpha=0.05, comps=comps): one limit per selected component;
\* selecting a column the score matrix does not have raises IndexError
HotellingOutcomes(m, comps) ==
    IF ~InRange(m, comps)
    THEN {[exc |-> "IndexError", value |-> <<>>]}
    ELSE {[exc |-> "", value |-> v] : v \in [1..Len(comps) -> T2Vals]}

RECURSIVE NormSum(_, _, _, _)
\* ((self.scores[:, comps] ** 2) / t2 ** 2).sum(axis=1) for one sample's row
NormSum(row, comps, t2, i) ==
    IF i = 0 THEN FZero
    ELSE FAdd(NormSum(row, comps, t2, i - 1),
              FDiv(row[comps[i] + 1] * row[comps[i] + 1], t2[i] * t2[i]))

OutlierIdxAtLeast(m, comps, t2) ==
    {s \in Samples :
        LET x == NormSum(m.scores[s], comps, t2, Len(comps))
        IN FGt(x, OutlierLimit) \/ (x.k = "fin" /\ x.n = OutlierLimit * x.d)}

OutlierIdx(m, comps, t2) ==
    {s \in Samples : FGt(NormSum(m.scores[s], comps, t2, Len(comps)), OutlierLimit)}

\* plt.axhline(y=t2): the backend compares y with the axis bounds in a
\* boolean context, which raises ValueError for an array of several values
AxhlineRaises(y) == Len(y) > 1

CaughtOnlyValueError(e) == e = "ValueError"

\* except (ValueError, IndexError)
CaughtByPlotScores(e) == e \in {"ValueError", "IndexError"}

ScoresAborted(e, drawn, t2) ==
    IF CaughtByPlotScores(e)
    THEN [exc |-> "Exception", printed |-> <<InvalidComponentMsg>>, t2 |-> t2,
          outliers |-> drawn, ellipse |-> FALSE, titled |-> FALSE,
          labelled |-> FALSE, shown |-> FALSE]
    ELSE [exc |-> e, printed |-> <<>>, t2 |-> t2, outliers |-> drawn,
          ellipse |-> FALSE, titled |-> FALSE, labelled |-> FALSE, shown |-> FALSE]

PlotScoresResult(m, comps, color, h) ==
    IF h.exc # "" THEN ScoresAborted(h.exc, {}, <<>>)
    ELSE
      LET t2 == h.value
          \* the same outlier_idx is scattered with marker 'x' in each of
          \* the three colour branches
          drawn == OutlierIdx(m, comps, t2)
      IN IF Len(comps) = MaxPlotComps
         THEN \* ellipse, axis limits; then title, xlabel, ylabel, show
              [exc |-> "", printed |-> <<>>, t2 |-> t2, outliers |-> drawn,
               ellipse |-> TRUE, titled |-> TRUE, labelled |-> TRUE, shown |-> TRUE]
         ELSE IF AxhlineRaises(t2)
              THEN ScoresAborted("ValueError", drawn, t2)
              ELSE \* one component: the two limit lines and the legend are
                   \* drawn, the title is set, and the x label formats the
                   \* whole VarExpRatio array with '.2f', which raises
                   \* TypeError outside the try block
                   [exc |-> "TypeError", printed |-> <<>>, t2 |-> t2,
                    outliers |-> drawn, ellipse |-> FALSE, titled |-> TRUE,
                    labelled |-> FALSE, shown |-> FALSE]

plot_scores ==
    /\ pc = "idle"
    /\ \E comps \in CompSelections, color \in ColorOptions :
         \E h \in HotellingOutcomes(self, comps) :
            /\ call' = [op |-> "plot_scores", comps |-> comps, color |-> color]
            /\ result' = PlotScoresResult(self, comps, color, h)
    /\ pc' = "done"
    /\ UNCHANGED <<self, globals>>

\* the caller takes the outcome; the object is ready for the next call
Return ==
    /\ pc = "done"
    /\ pc' = "idle"
    /\ call' = Idle
    /\ result' = NoResult
    /\ UNCHANGED <<self, globals>>

(***************************************************************************)
(* scree_plot and repeated_cv: the refit / cross-validate sweep            *)
(***************************************************************************)
\* currmodel.fit(x); currmodel.cross_validation(x, ...): the refitted copy
\* with n components, whose cvParameters['Q2'] is q
Fitted(m, n, q) ==
    [ncomps |-> n, scores |-> [s \in Samples |-> [c \in 1..n |-> 0]],
     loadings |-> ConstMatrix(n, NVars, 1), cvParameters |-> <<CvStats(n, q, 1)>>]

\* a trial that works on the receiver itself instead of a copy
TrialAliased(recv, n, out) ==
    LET currmodel == IF out = Fail THEN [recv EXCEPT !.ncomps = n]
                                   ELSE Fitted(recv, n, out)
    IN [self |-> currmodel, start |-> recv, currmodel |-> currmodel,
        exc |-> IF out = Fail THEN "FitError" ELSE ""]

\* currmodel = deepcopy(self); currmodel.ncomps = n; fit; cross_validation.
\* `out` is what the model's fit and cross-validation produce for this
\* trial: a Q2 value, or Fail when one of them raises.
Trial(recv, n, out) ==
    LET start == recv
        currmodel == IF out = Fail THEN [start EXCEPT !.ncomps = n]
                                   ELSE Fitted(start, n, out)
    IN [self |-> recv, start |-> start, currmodel |-> currmodel,
        exc |-> IF out = Fail THEN "FitError" ELSE ""]

RECURSIVE Sweep(_, _, _)
\* the loop over the trials `plan` (a sequence of [ncomps, out]) from trial i;
\* an exception in a trial ends the loop
Sweep(st, plan, i) ==
    IF i > Len(plan) \/ st.exc # "" THEN st
    ELSE LET t == Trial(st.self, plan[i].ncomps, plan[i].out)
         IN Sweep([self |-> t.self,
                   starts |-> Append(st.starts, t.start),
                   models |-> IF t.exc = "" THEN Append(st.models, t.currmodel)
                                            ELSE st.models,
                   exc |-> t.exc], plan, i + 1)

SweepStart(m) == [self |-> m, starts |-> <<>>, models |-> <<>>, exc |-> ""]

Min(S) == CHOOSE x \in S : \A y \in S : x <= y

\* np.where(np.diff(q2) / q2[0:-1] < 0.05)[0], 0-based positions
PercentCutoff(q2) ==
    {j \in 0..(Len(q2) - 2) :
        FLt(FDiv(q2[j + 2] - q2[j + 1], q2[j + 1]), CutoffNum, CutoffDen)}

\* np.where(np.diff(q2) / q2[0] < 0.05)[0] of the two-element case
PercentCutoffTwo(q2) ==
    {j \in 0..(Len(q2) - 2) :
        FLt(FDiv(q2[j + 2] - q2[j + 1], q2[1]), CutoffNum, CutoffDen)}

ScreeOutcome(e, printed, vline, q2, starts, shown) ==
    [exc |-> e, printed |-> printed, vline |-> vline, q2 |-> q2,
     starts |-> starts, shown |-> shown]

\* lines 163-175 on the Q2 array of the sweep
PlateauResult(q2, starts) ==
    IF Len(q2) = 2
    THEN IF PercentCutoffTwo(q2) = {}
         THEN \* np.min of an empty array
              ScreeOutcome("ValueError", <<>>, <<>>, q2, starts, FALSE)
         ELSE \* plateau is computed and dropped
              ScreeOutcome("", <<>>, <<>>, q2, starts, TRUE)
    ELSE IF PercentCutoff(q2) = {}
         THEN ScreeOutcome("", <<[text |-> ExploreMsg, component |-> 0]>>, <<>>,
                           q2, starts, TRUE)
         ELSE LET plateau == Min(PercentCutoff(q2))
              IN ScreeOutcome("", <<[text |-> StabilizeMsg, component |-> plateau + 1]>>,
                              <<plateau + 1>>, q2, starts, TRUE)

\* warnings.simplefilter(action='ignore', category=DataConversionWarning):
\* the category is a global name of the module, looked up when the line runs
FilterRaises(g) == "DataConversionWarning" \notin g

ScreeRun(m, g, tc, outs) ==
    IF FilterRaises(g)
    THEN [self |-> m, result |-> ScreeOutcome("NameError", <<>>, <<>>, <<>>, <<>>, FALSE)]
    ELSE LET sw == Sweep(SweepStart(m), [i \in 1..tc |-> [ncomps |-> i, out |-> outs[i]]], 1)
         IN IF sw.exc # ""
            THEN [self |-> sw.self,
                  result |-> ScreeOutcome(sw.exc, <<>>, <<>>, <<>>, sw.starts, FALSE)]
            ELSE [self |-> sw.self,
                  result |-> PlateauResult([i \in 1..tc |-> sw.models[i].cvParameters[1].Q2],
                                           sw.starts)]

scree_plot ==
    /\ pc = "idle"
    /\ \E tc \in 1..MaxTotalComps : \E outs \in [1..tc -> Q2Vals \cup {Fail}] :
         LET r == ScreeRun(self, globals, tc, outs)
         IN /\ call' = [op |-> "scree_plot", total_comps |-> tc, trials |-> outs,
                        before |-> self]
            /\ result' = r.result
            /\ self' = r.self
    /\ pc' = "done"
    /\ UNCHANGED globals

RepOutcome(e, q2x, starts, returned) ==
    [exc |-> e, q2x |-> q2x, starts |-> starts, returned |-> returned]

\* the trials in loop order: ncomps outer, rep inner
RepPlan(tc, reps, outs) ==
    [t \in 1..(tc * reps) |->
        [ncomps |-> ((t - 1) \div reps) + 1,
         out |-> outs[((t - 1) \div reps) + 1][((t - 1) % reps) + 1]]]

RepeatedRun(m, g, tc, reps, outs) ==
    IF FilterRaises(g)
    THEN [self |-> m, result |-> RepOutcome("NameError", <<>>, <<>>, FALSE)]
    ELSE LET sw == Sweep(SweepStart(m), RepPlan(tc, reps, outs), 1)
         IN IF sw.exc # ""
            THEN [self |-> sw.self, result |-> RepOutcome(sw.exc, <<>>, sw.starts, FALSE)]
            ELSE \* q2x[ncomps - 1, rep] = currmodel.cvParameters['Q2']
                 [self |-> sw.self,
                  result |-> RepOutcome("",
                      [n \in 1..tc |-> [r \in 1..reps |->
                          sw.models[(n - 1) * reps + r].cvParameters[1].Q2]],
                      sw.starts, TRUE)]

repeated_cv ==
    /\ pc = "idle"
    /\ \E tc \in 1..MaxRepComps, reps \in 1..MaxRepeats :
         \E outs \in [1..tc -> [1..reps -> RepQ2Vals \cup {Fail}]] :
            LET r == RepeatedRun(self, globals, tc, reps, outs)
            IN /\ call' = [op |-> "repeated_cv", total_comps |-> tc, repeats |-> reps,
                           trials |-> outs, before |-> self]
               /\ result' = r.result
               /\ self' = r.self
    /\ pc' = "done"
    /\ UNCHANGED globals

(***************************************************************************)
(* plot_loadings                                                           *)
(***************************************************************************)
\* numpy row index: negative positions count from the end
RowOk(n, idx) == -n <= idx /\ idx < n
Row(n, idx) == IF idx < 0 THEN idx + n + 1 ELSE idx + 1

LoadingsOutcome(e, kind, lower, upper, shown) ==
    [exc |-> e, kind |-> kind, lower |-> lower, upper |-> upper, shown |-> shown]

PlotLoadingsResult(m, component, bar, sigma) ==
    LET idx == component - 1
        n == m.ncomps
    IN IF ~bar
       THEN IF ~RowOk(n, idx)
            THEN LoadingsOutcome("IndexError", "none", <<>>, <<>>, FALSE)
            ELSE IF m.cvParameters # <<>>
                 THEN LET mean == m.cvParameters[1].Mean_Loadings[Row(n, idx)]
                          sd == m.cvParameters[1].Stdev_Loadings[Row(n, idx)]
                      IN LoadingsOutcome("", "fill_between",
                                         [v \in 1..NVars |-> mean[v] - sigma * sd[v]],
                                         [v \in 1..NVars |-> mean[v] + sigma * sd[v]],
                                         TRUE)
                 ELSE LoadingsOutcome("", "none", <<>>, <<>>, TRUE)
       ELSE IF m.cvParameters # <<>>
            THEN \* plt.errorbar(range(self.loadings_p[:, component].size),
                 \*   height=..., yerr=2 * ..., width=0.2): the model has no
                 \* loadings_p; with one, errorbar lacks its y argument
                 LoadingsOutcome(IF "loadings_p" \in ModelAttributes
                                 THEN "TypeError" ELSE "AttributeError",
                                 "none", <<>>, <<>>, FALSE)
            ELSE IF ~RowOk(n, idx)
                 THEN LoadingsOutcome("IndexError", "none", <<>>, <<>>, FALSE)
                 ELSE LoadingsOutcome("", "none", <<>>, <<>>, TRUE)

plot_loadings ==
    /\ pc = "idle"
    /\ \E component \in 0..(MaxNcomps + 1), bar \in BOOLEAN, sigma \in Sigmas :
         /\ call' = [op |-> "plot_loadings", component |-> component, bar |-> bar,
                     sigma |-> sigma]
         /\ result' = PlotLoadingsResult(self, component, bar, sigma)
    /\ pc' = "done"
    /\ UNCHANGED <<self, globals>>

(***************************************************************************)
(* plot_dmodx                                                              *)
(***************************************************************************)
DmodxDfnOffByOne(m, k) == m - k

\* x.shape[1] - self.ncomps - 1
DmodxDfn(m, k) == m - k - 1

\* (x.shape[0] - self.ncomps - 1)*(x.shape[1] - self.ncomps)
DmodxDfd(n, m, k) == (n - k - 1) * (m - k)

\* st.f.ppf(1 - alpha, dfn, dfd) for 0 < alpha < 1: a positive quantile when
\* both degrees of freedom are positive, nan otherwise
FPpf(dfn, dfd) == IF dfn > 0 /\ dfd > 0 THEN "positive" ELSE "nan"

DmodxOutcome(e, dfn, dfd, dcrit, shown) ==
    [exc |-> e, dfn |-> dfn, dfd |-> dfd, dcrit |-> dcrit, shown |-> shown]

\* `raised` is what self.dmodx(x) raises ("" when it returns)
PlotDmodxResult(m, n, nv, raised) ==
    IF raised # ""
    THEN DmodxOutcome(raised, 0, 0, "none", FALSE)
    ELSE DmodxOutcome("", DmodxDfn(nv, m.ncomps), DmodxDfd(n, nv, m.ncomps),
                      FPpf(DmodxDfn(nv, m.ncomps), DmodxDfd(n, nv, m.ncomps)), TRUE)

plot_dmodx ==
    /\ pc = "idle"
    /\ \E n \in 1..MaxDim, nv \in 1..MaxDim, raised \in {"", "TypeError", "ValueError"} :
         /\ call' = [op |-> "plot_dmodx", n |-> n, m |-> nv]
         /\ result' = PlotDmodxResult(self, n, nv, raised)
    /\ pc' = "done"
    /\ UNCHANGED <<self, globals>>

(***************************************************************************)
(* Specifications                                                          *)
(***************************************************************************)
InitScores ==
    /\ self \in ModelsWith(ScoreVals, FALSE)
    /\ globals = ModuleGlobals
    /\ pc = "idle"
    /\ call = Idle
    /\ result = NoResult

NextScores == plot_scores \/ Return

SpecScores == InitScores /\ [][NextScores]_vars

Init ==
    /\ self \in ModelsWith({0}, TRUE)
    /\ globals = ModuleGlobals
    /\ pc = "idle"
    /\ call = Idle
    /\ result = NoResult

Next ==
    \/ plot_scores
    \/ scree_plot
    \/ repeated_cv
    \/ plot_loadings
    \/ plot_dmodx
    \/ Return

Spec == Init /\ [][Next]_vars

\* The same program under either binding of the warning category's name:
\* every behaviour of Spec is a behaviour of SpecAnyNamespace.
InitAnyNamespace ==
    /\ self \in ModelsWith({0}, TRUE)
    /\ globals \in {ModuleGlobals, ModuleGlobals \cup {"DataConversionWarning"}}
    /\ pc = "idle"
    /\ call = Idle
    /\ result = NoResult

SpecAnyNamespace == InitAnyNamespace /\ [][Next]_vars


\* The sweep's result handling as it runs once the filter line passes (the
\* category name bound in the module's namespace by the embedding program).
InitNameBound ==
    /\ self \in ModelsWith({0}, TRUE)
    /\ globals = ModuleGlobals \cup {"DataConversionWarning"}
    /\ pc = "idle"
    /\ call = Idle
    /\ result = NoResult

SpecNameBound == InitNameBound /\ [][Next]_vars

(***************************************************************************)
(* Properties                                                              *)
(***************************************************************************)
Done(op) == pc = "done" /\ call.op = op

NoFail(outs) == \A i \in DOMAIN outs : outs[i] # Fail

\* (Q2[i] - Q2[i-1]) / Q2[i-1] < 0.05 at the 0-based index i >= 1 of the Q2
\* sequence q (q[1] is Q2[0], the one-component model)
StepBelowCutoff(q, i) == FLt(FDiv(q[i + 1] - q[i], q[i]), CutoffNum, CutoffDen)

PlateauSteps(q) == {i \in 1..(Len(q) - 1) : StepBelowCutoff(q, i)}

ReportedAt(k) ==
    /\ result.exc = ""
    /\ result.vline = <<k>>
    /\ result.printed = <<[text |-> StabilizeMsg, component |-> k]>>

\* C1: a scree_plot call whose Q2 sequence Q2[0..n-1] has a step below the
\* 5% cutoff marks (red dashed line) and prints the smallest 0-based index
\* i >= 1 with (Q2[i] - Q2[i-1]) / Q2[i-1] < 0.05.
C1_PlateauIsSmallestIndex ==
    (Done("scree_plot") /\ NoFail(call.trials) /\ PlateauSteps(call.trials) # {})
        => ReportedAt(Min(PlateauSteps(call.trials)))

\* C2: a scree_plot call in whose tried range no step is below the cutoff
\* prints the advice to explore more components and completes normally, for
\* every total_comps >= 1.
C2_NoPlateauAdvises ==
    (Done("scree_plot") /\ NoFail(call.trials) /\ PlateauSteps(call.trials) = {})
        => /\ result.exc = ""
           /\ result.printed = <<[text |-> ExploreMsg, component |-> 0]>>
           /\ result.shown

\* C8: with q[i] the Q2 of the model with i components, the marked and
\* printed stopping point is the smallest component count i >= 2 with
\* (q[i] - q[i-1]) / q[i-1] < 0.05.
C8_StopIsFailingCount ==
    (Done("scree_plot") /\ NoFail(call.trials) /\ PlateauSteps(call.trials) # {})
        => ReportedAt(Min({i + 1 : i \in PlateauSteps(call.trials)}))

RegressSteps(q) == {i \in 1..(Len(q) - 1) : q[i + 1] < q[i]}

\* C9: every step at which Q2 decreases satisfies the plateau condition,
\* so a call whose Q2 sequence decreases somewhere reports a plateau no
\* later than the first decrease.
C9_RegressionIsPlateau ==
    (Done("scree_plot") /\ NoFail(call.trials) /\ RegressSteps(call.trials) # {})
        => /\ result.exc = ""
           /\ Len(result.vline) = 1
           /\ result.vline[1] <= Min(RegressSteps(call.trials))

\* C5: repeated_cv returns a total_comps x repeats matrix whose entry
\* [n-1, r] is the Q2 of the r-th trial of the n-component model.
C5_MatrixHoldsEveryTrial ==
    (Done("repeated_cv") /\ \A n \in DOMAIN call.trials : NoFail(call.trials[n]))
        => /\ result.returned
           /\ DOMAIN result.q2x = 1..call.total_comps
           /\ \A n \in 1..call.total_comps :
                /\ DOMAIN result.q2x[n] = 1..call.repeats
                /\ \A r \in 1..call.repeats : result.q2x[n][r] = call.trials[n][r]

SweepDone == Done("scree_plot") \/ Done("repeated_cv")

InvalidSelection(m, comps) == Len(comps) > MaxPlotComps \/ ~InRange(m, comps)

\* C3: plot_scores with more than two components, or with a component index
\* that is not below the model's component count, prints the message about
\* the component choice and raises; nothing is titled, labelled or shown.
C3_InvalidSelectionAborts ==
    (Done("plot_scores") /\ InvalidSelection(self, call.comps))
        => /\ result.exc = "Exception"
           /\ result.printed = <<InvalidComponentMsg>>
           /\ ~result.titled /\ ~result.labelled /\ ~result.shown

C3_Witness ==
    /\ Done("plot_scores")
    /\ Len(call.comps) = MaxPlotComps + 1
    /\ InRange(self, call.comps)
    /\ call.color = "discrete"
    /\ result.exc = "Exception"

Score(s, c) == self.scores[s][c + 1]

\* C4: for a valid selection of one component the samples drawn as outliers
\* are exactly those with |score| above the T2 limit; for two components
\* (positive limits b1, b2) exactly those with (s1/b1)^2 + (s2/b2)^2 > 1,
\* compared after clearing the denominators.
C4_OutliersAreOutsideBoundary ==
    (Done("plot_scores") /\ ~InvalidSelection(self, call.comps))
        => /\ Len(call.comps) = 1 =>
                result.outliers =
                    {s \in Samples : Abs(Score(s, call.comps[1])) > result.t2[1]}
           /\ (Len(call.comps) = 2 /\ result.t2[1] > 0 /\ result.t2[2] > 0) =>
                result.outliers =
                    {s \in Samples :
                        LET s1 == Score(s, call.comps[1])
                            s2 == Score(s, call.comps[2])
                            b1 == result.t2[1]
                            b2 == result.t2[2]
                        IN s1 * s1 * b2 * b2 + s2 * s2 * b1 * b1 > b1 * b1 * b2 * b2}

C4_Witness ==
    /\ Done("plot_scores")
    /\ Len(call.comps) = 2
    /\ call.comps[1] # call.comps[2]
    /\ result.shown
    /\ result.t2[1] > 0 /\ result.t2[2] > 0
    /\ result.outliers = {1}
    /\ Abs(Score(1, call.comps[1])) <= result.t2[1]
    /\ Abs(Score(1, call.comps[2])) <= result.t2[2]
    /\ Abs(Score(2, call.comps[2])) = result.t2[2]
    /\ Score(2, call.comps[1]) = 0

CvRow(name, component) == self.cvParameters[1][name][component]

\* C6: plot_loadings on a model with cross-validation statistics overlays
\* mean +/- sigma * stdev of the selected component's loadings, as a shaded
\* region in line mode and as error bars in bar mode, and completes.
C6_BandIsSigmaStdev ==
    (Done("plot_loadings") /\ self.cvParameters # <<>> /\ call.component \in 1..self.ncomps)
        => /\ result.exc = ""
           /\ result.shown
           /\ result.kind = IF call.bar THEN "errorbar" ELSE "fill_between"
           /\ result.lower = [v \in 1..NVars |->
                 CvRow("Mean_Loadings", call.component)[v]
                   - call.sigma * CvRow("Stdev_Loadings", call.component)[v]]
           /\ result.upper = [v \in 1..NVars |->
                 CvRow("Mean_Loadings", call.component)[v]
                   + call.sigma * CvRow("Stdev_Loadings", call.component)[v]]

MinOf(a, b) == IF a < b THEN a ELSE b

ValidCounts == 1 <= self.ncomps /\ self.ncomps <= MinOf(call.n, call.m)

DmodxComputed == Done("plot_dmodx") /\ result.exc = "" /\ ValidCounts

\* C7 as stated: for n samples, m variables and 1 <= k <= min(n, m)
\* components the F critical value has m - k - 1 and (n - k - 1)(m - k)
\* degrees of freedom, both strictly positive, and is strictly positive.
C7_DfAlwaysPositive ==
    DmodxComputed
        => /\ result.dfn = call.m - self.ncomps - 1
           /\ result.dfd = (call.n - self.ncomps - 1) * (call.m - self.ncomps)
           /\ result.dfn > 0 /\ result.dfd > 0
           /\ result.dcrit = "positive"

\* C7 amended: the degrees of freedom are m - k - 1 and (n - k - 1)(m - k);
\* both are strictly positive, and the critical value defined and positive,
\* exactly when k <= min(n, m) - 2.
C7_DfPositiveIffTwoBelow ==
    DmodxComputed
        => /\ result.dfn = call.m - self.ncomps - 1
           /\ result.dfd = (call.n - self.ncomps - 1) * (call.m - self.ncomps)
           /\ (result.dfn > 0 /\ result.dfd > 0)
                <=> self.ncomps <= MinOf(call.n, call.m) - 2
           /\ result.dcrit = "positive"
                <=> self.ncomps <= MinOf(call.n, call.m) - 2

C7_Witness ==
    /\ DmodxComputed
    /\ self.ncomps = MinOf(call.n, call.m) - 2
    /\ call.n # call.m
    /\ result.dcrit = "positive"

(***************************************************************************)
(* What lines 154-175 and 203-213 do with the sweep's Q2 values, checked   *)
(* under SpecNameBound, where the filter line passes and the sweep runs.   *)
(***************************************************************************)
ScreeRan == Done("scree_plot") /\ NoFail(call.trials)

\* Outside the two-element case the marked and printed number is the
\* smallest 0-based index i >= 1 below the cutoff.
NameBound_PlateauIndexUnlessTwo ==
    (ScreeRan /\ Len(call.trials) # 2) => C1_PlateauIsSmallestIndex

\* In the two-element case nothing is marked or printed: the call raises
\* ValueError when no step is below the cutoff and otherwise drops the
\* plateau it computed.
NameBound_TwoReportsNothing ==
    (ScreeRan /\ Len(call.trials) = 2)
        => /\ result.printed = <<>> /\ result.vline = <<>>
           /\ result.exc = IF PlateauSteps(call.trials) = {} THEN "ValueError" ELSE ""

\* Outside the two-element case the advice is printed when no step is
\* below the cutoff.
NameBound_AdviceUnlessTwo ==
    (ScreeRan /\ Len(call.trials) # 2) => C2_NoPlateauAdvises

\* The reported number is one less than the component count of the first
\* model whose Q2 failed to improve by 5%.
NameBound_ReportsCountBeforeFailingModel ==
    (ScreeRan /\ Len(call.trials) # 2 /\ PlateauSteps(call.trials) # {})
        => ReportedAt(Min({i + 1 : i \in PlateauSteps(call.trials)}) - 1)

\* A decrease counts as a plateau when no Q2 value is negative.
NameBound_RegressionIsPlateauIfNonNegative ==
    (ScreeRan /\ Len(call.trials) # 2 /\ \A i \in DOMAIN call.trials : call.trials[i] >= 0)
        => C9_RegressionIsPlateau

====
